---- MODULE Spec2Model ----
(***************************************************************************)
(* Model of main_code.py: the Spectral Indices Calculator.  The session   *)
(* state is the set of MainWindow fields; every menu handler is one       *)
(* action.  The three index helpers are operators over small arrays.      *)
(***************************************************************************)
EXTENDS Integers, Sequences, FiniteSets

VARIABLES raster_path, shapefile_path, raster_data, gdf, db_connection,
          last_displayed_data, last_displayed_type,
          artifact_source, last_op,
          arg1, arg2, fn, result

session == <<raster_path, shapefile_path, raster_data, gdf, db_connection,
             last_displayed_data, last_displayed_type>>
index_vars == <<arg1, arg2, fn, result>>
vars == <<raster_path, shapefile_path, raster_data, gdf, db_connection,
          last_displayed_data, last_displayed_type, artifact_source, last_op,
          arg1, arg2, fn, result>>

\* ------------------------------------------------------------------ bounds
\* Pixels per array of the index-math specification.
NPix == 2
\* Pixel values of the index-math specification range over -MaxVal..MaxVal.
MaxVal == 1
\* Band numbers typed into a band prompt range over 0..MaxBand.
MaxBand == 2
\* Buffer distances typed into the prompt range over -MaxDist..MaxDist.
MaxDist == 1

\* ------------------------------------------------------------ Python values
\* Python's None for object-valued fields, and for string-valued fields.
None == [kind |-> "None"]
NoneStr == "None"

\* ------------------------------------------------------------------ floats
\* A float is <<n, d>>: the rational n/d in lowest terms with d > 0, or one
\* of IEEE's specials, written with d = 0: nan <<0, 0>>, +inf <<1, 0>>,
\* -inf <<-1, 0>>.
NaN == <<0, 0>>

Abs(x) == IF x < 0 THEN -x ELSE x

Sign(x) == IF x < 0 THEN -1 ELSE IF x = 0 THEN 0 ELSE 1

RECURSIVE GCD(_, _)
GCD(a, b) == IF b = 0 THEN a ELSE GCD(b, a % b)

Float(n, d) ==
    LET g == GCD(Abs(n), Abs(d))
    IN  <<(Sign(d) * n) \div g, Abs(d) \div g>>

IsFinite(x) == x[2] # 0

\* x + y and x - y of IEEE floats (exact on the small values modelled).
FAdd(x, y) ==
    IF IsFinite(x) /\ IsFinite(y) THEN Float(x[1] * y[2] + y[1] * x[2], x[2] * y[2])
    ELSE IF IsFinite(y) THEN x
    ELSE IF IsFinite(x) THEN y
    ELSE IF x = y THEN x ELSE NaN

FNeg(x) == <<-x[1], x[2]>>

FSub(x, y) == FAdd(x, FNeg(y))

\* x / y as numpy divides: a zero divisor gives nan (0/0) or a signed
\* infinity, with a warning and no exception.
FDiv(x, y) ==
    IF ~IsFinite(x) \/ ~IsFinite(y) THEN NaN
    ELSE IF y[1] = 0 THEN <<Sign(x[1]), 0>>
    ELSE Float(x[1] * y[2], x[2] * y[1])

\* ------------------------------------------------------------------ arrays
\* A numpy array: its dtype, its shape and its pixels in row order.  Integer
\* arrays hold integers, float arrays hold floats.
Array(dtype, shape, px) ==
    [kind |-> "array", dtype |-> dtype, shape |-> shape, px |-> px]

\* ndarray.astype(float)
astype_float(a) ==
    IF a.dtype = "float64" THEN a
    ELSE Array("float64", a.shape, [i \in DOMAIN a.px |-> <<a.px[i], 1>>])

\* Element-wise a + b, a - b, a / b of two float arrays of one shape.
np_add(a, b) == Array("float64", a.shape, [i \in DOMAIN a.px |-> FAdd(a.px[i], b.px[i])])

np_sub(a, b) == Array("float64", a.shape, [i \in DOMAIN a.px |-> FSub(a.px[i], b.px[i])])

np_div(a, b) == Array("float64", a.shape, [i \in DOMAIN a.px |-> FDiv(a.px[i], b.px[i])])

\* np.where(den == 0, 0, quot): both operands are already computed; the
\* integer 0 is broadcast and widened to the quotient's dtype.
np_where_zero(den, quot) ==
    Array("float64", quot.shape,
          [i \in DOMAIN quot.px |-> IF den.px[i] = <<0, 1>> THEN <<0, 1>> ELSE quot.px[i]])

\* -------------------------------------------------------------- index math
\* NDVI with the numerator's operands exchanged: (red - nir) / (nir + red).
calculate_ndvi_swapped(red, nir) ==
    LET r == astype_float(red)
        n == astype_float(nir)
    IN  np_where_zero(np_add(n, r), np_div(np_sub(r, n), np_add(n, r)))

calculate_ndvi(red, nir) ==
    LET r == astype_float(red)
        n == astype_float(nir)
    IN  np_where_zero(np_add(n, r), np_div(np_sub(n, r), np_add(n, r)))

calculate_ndwi(green, nir) ==
    LET g == astype_float(green)
        n == astype_float(nir)
    IN  np_where_zero(np_add(g, n), np_div(np_sub(g, n), np_add(g, n)))

calculate_ndbi(swir, nir) ==
    LET s == astype_float(swir)
        n == astype_float(nir)
    IN  np_where_zero(np_add(s, n), np_div(np_sub(s, n), np_add(s, n)))

\* ------------------------------------------------------- the environment
\* The files, tables and credentials a session can be pointed at.  A file
\* dialog returns "" when cancelled.
\* rasterio.open(file_name): the datasets behind the paths that open.
RasterFile(file_name) ==
    IF file_name = "a.tif" THEN
        [kind |-> "dataset", name |-> "a.tif", crs |-> "EPSG:4326", transform |-> "T_a",
         count |-> 1,
         bands |-> <<Array("int", <<2, 2>>, <<1, 2, 3, 0>>)>>]
    ELSE
        [kind |-> "dataset", name |-> "b.tif", crs |-> "EPSG:32633", transform |-> "T_b",
         count |-> 2,
         bands |-> <<Array("int", <<2, 2>>, <<2, 0, 1, 0>>),
                     Array("int", <<2, 2>>, <<2, 1, 0, 0>>)>>]

ValidRasters == {"a.tif", "b.tif"}
RasterDialog == {"", "a.tif", "b.tif", "bad.tif"}

\* A vector layer (GeoDataFrame): its CRS ("None" when unset) and its
\* features; a feature has an id, its validity and the buffer applied to it.
Layer(crs, geoms) == [kind |-> "layer", crs |-> crs, geoms |-> geoms]

Geom(id, valid) == [id |-> id, valid |-> valid, buf |-> 0]

\* gpd.read_file(file_name): the layers behind the paths that read.
ShapeFile(file_name) ==
    IF file_name = "p.shp" THEN
        Layer("EPSG:32633", <<Geom(1, TRUE), Geom(2, FALSE)>>)
    ELSE IF file_name = "i.shp" THEN
        Layer("None", <<Geom(3, FALSE)>>)
    ELSE
        Layer("EPSG:4326", <<>>)

ValidShapes == {"p.shp", "i.shp", "e.shp"}
ShapeDialog == {"", "p.shp", "i.shp", "e.shp", "bad.shp"}

\* gpd.read_postgis("SELECT * FROM <table>"): the tables that exist.
Table(table_name) ==
    IF table_name = "roads" THEN Layer("None", <<Geom(4, TRUE)>>)
    ELSE Layer("None", <<>>)

ValidTables == {"roads", "empty_t"}
\* <<text, ok>> of the table-name prompt; a cancelled prompt returns "".
TablePrompt == {<<"", FALSE>>, <<"", TRUE>>, <<"roads", TRUE>>,
                <<"empty_t", TRUE>>, <<"missing", TRUE>>}

Credentials == {"good", "bad"}
Connection == [kind |-> "connection", dsn |-> "good"]

\* <<value, ok>> of QInputDialog.getInt / getDouble; a cancelled prompt
\* returns the default value 0.
BandInputs == 0..MaxBand
BandPrompt == {<<0, FALSE>>} \cup {<<b, TRUE>> : b \in BandInputs}
DistancePrompt == {<<0, FALSE>>} \cup {<<d, TRUE>> : d \in -MaxDist..MaxDist}
SaveDialog == {"", "out"}

\* ------------------------------------------------------ library operations
\* GeoDataFrame.empty
empty(layer) == Len(layer.geoms) = 0

\* CRS.is_geographic
is_geographic(crs) == crs = "EPSG:4326"

\* GeoDataFrame.to_crs / set_crs: the layer in another CRS.
to_crs(layer, crs) == [layer EXCEPT !.crs = crs]

\* The valid features of a layer, in order.
RECURSIVE valid_geoms(_)
valid_geoms(geoms) ==
    IF geoms = <<>> THEN <<>>
    ELSE IF Head(geoms).valid THEN <<Head(geoms)>> \o valid_geoms(Tail(geoms))
    ELSE valid_geoms(Tail(geoms))

\* GeoSeries.buffer(distance) on a copy of the layer.
buffer(layer, distance) ==
    [layer EXCEPT !.geoms = [i \in DOMAIN layer.geoms |->
                                [layer.geoms[i] EXCEPT !.buf = distance]]]

\* DatasetReader.read(band) succeeds for bands 1..count, IndexError otherwise.
band_in_range(ds, band) == band \in 1..ds.count

read(ds, band) == ds.bands[band]

\* rasterio.mask.mask(..., crop=True)[0][0]: band 1 cut to the shapes.
mask_band1(ds, shapes) ==
    LET b == ds.bands[1]
        n == IF Len(shapes) < Len(b.px) THEN Len(shapes) ELSE Len(b.px)
    IN  Array(b.dtype, <<1, n>>, SubSeq(b.px, 1, n))

\* bool(x), as `not x` evaluates it: None is false, a dataset or a
\* connection is true, and a (Geo)DataFrame raises ValueError ("The truth
\* value of a DataFrame is ambiguous").
truth(x) ==
    IF x = None THEN "False"
    ELSE IF x.kind = "layer" THEN "ValueError"
    ELSE "True"

\* ------------------------------------------------------------ observations
\* What the last handler did: its inputs, how it ended ("ok", "error": a
\* critical dialog was shown, "canceled", "silent": no dialog, "unhandled":
\* an exception left the handler), the dialog text, the library calls it
\* made in order, and the file it wrote (None when it wrote none).
Op(op, input, outcome, msg, calls, written) ==
    [op |-> op, input |-> input, outcome |-> outcome, msg |-> msg,
     calls |-> calls, written |-> written]

File(format, path, data, crs, transform) ==
    [kind |-> "file", format |-> format, path |-> path, data |-> data,
     crs |-> crs, transform |-> transform]

\* ------------------------------------------------------------------- Init
SessionInit ==
    /\ raster_path = NoneStr
    /\ shapefile_path = NoneStr
    /\ raster_data = None
    /\ gdf = None
    /\ db_connection = None
    /\ last_displayed_data = None
    /\ last_displayed_type = NoneStr
    /\ artifact_source = None
    /\ last_op = Op("__init__", <<>>, "ok", "", <<>>, None)

IndexIdle ==
    /\ arg1 = Array("int", <<1, NPix>>, [i \in 1..NPix |-> 0])
    /\ arg2 = Array("int", <<1, NPix>>, [i \in 1..NPix |-> 0])
    /\ fn = NoneStr
    /\ result = None

Init == SessionInit /\ IndexIdle

\* --------------------------------------------------------------- handlers
upload_raster ==
    \E file_name \in RasterDialog :
        IF file_name = "" THEN
            /\ last_op' = Op("upload_raster", <<file_name>>, "silent", "", <<>>, None)
            /\ UNCHANGED <<session, artifact_source, index_vars>>
        ELSE IF file_name \in ValidRasters THEN
            /\ raster_data' = RasterFile(file_name)
            /\ raster_path' = file_name
            /\ last_op' = Op("upload_raster", <<file_name>>, "ok",
                             "Raster uploaded successfully!", <<"rasterio.open">>, None)
            /\ UNCHANGED <<shapefile_path, gdf, db_connection, last_displayed_data,
                           last_displayed_type, artifact_source, index_vars>>
        ELSE
            /\ last_op' = Op("upload_raster", <<file_name>>, "error",
                             "Invalid raster file.", <<"rasterio.open">>, None)
            /\ UNCHANGED <<session, artifact_source, index_vars>>

upload_shapefile ==
    \E file_name \in ShapeDialog :
        IF file_name = "" THEN
            /\ last_op' = Op("upload_shapefile", <<file_name>>, "silent", "", <<>>, None)
            /\ UNCHANGED <<session, artifact_source, index_vars>>
        ELSE IF file_name \in ValidShapes THEN
            /\ gdf' = ShapeFile(file_name)
            /\ shapefile_path' = file_name
            /\ last_op' = Op("upload_shapefile", <<file_name>>, "ok",
                             "Shapefile uploaded successfully!", <<"gpd.read_file">>, None)
            /\ UNCHANGED <<raster_path, raster_data, db_connection, last_displayed_data,
                           last_displayed_type, artifact_source, index_vars>>
        ELSE
            /\ last_op' = Op("upload_shapefile", <<file_name>>, "error",
                             "Error loading shapefile", <<"gpd.read_file">>, None)
            /\ UNCHANGED <<session, artifact_source, index_vars>>

\* The handler ends without touching the session.
Ends(op, input, outcome, msg, calls) ==
    /\ last_op' = Op(op, input, outcome, msg, calls, None)
    /\ UNCHANGED <<session, artifact_source, index_vars>>

\* The artifact stored with the assignment of its tag left out.
Displays_untagged(data, type, source) ==
    /\ last_displayed_data' = data
    /\ artifact_source' = source
    /\ UNCHANGED <<raster_path, shapefile_path, raster_data, gdf, db_connection,
                   last_displayed_type, index_vars>>

\* The handler stores a new DisplayedArtifact and touches nothing else.
Displays(data, type, source) ==
    /\ last_displayed_data' = data
    /\ last_displayed_type' = type
    /\ artifact_source' = source
    /\ UNCHANGED <<raster_path, shapefile_path, raster_data, gdf, db_connection,
                   index_vars>>

\* The distance check with its boundary moved: zero passes.
invalid_distance_zero_ok(distance, ok) == ~ok \/ distance < 0

\* `not ok or distance <= 0`
invalid_distance(distance, ok) == ~ok \/ distance <= 0

buffer_tool ==
    \E prompt \in DistancePrompt :
        LET distance == prompt[1]
            ok == prompt[2]
        IN  IF gdf = None THEN
                \* self.gdf.empty on None: AttributeError, outside the try
                Ends("buffer_tool", <<>>, "unhandled", "AttributeError", <<>>)
            ELSE IF empty(gdf) THEN
                Ends("buffer_tool", <<>>, "error", "Please upload a shapefile first.", <<>>)
            ELSE IF invalid_distance(distance, ok) THEN
                Ends("buffer_tool", prompt, "error", "Invalid buffer distance.", <<>>)
            ELSE
                /\ Displays(buffer(gdf, distance), "shapefile", None)
                /\ last_op' = Op("buffer_tool", prompt, "ok", "", <<"buffer", "plot">>, None)

clip_raster ==
    IF truth(raster_data) = "False" THEN
        Ends("clip_raster", <<>>, "error", "Please upload raster and shapefile first.", <<>>)
    ELSE IF truth(gdf) = "ValueError" THEN
        \* `not self.gdf` on a GeoDataFrame raises, outside the try
        Ends("clip_raster", <<>>, "unhandled", "ValueError", <<>>)
    ELSE IF truth(gdf) = "False" THEN
        Ends("clip_raster", <<>>, "error", "Please upload raster and shapefile first.", <<>>)
    ELSE
        LET reproject == gdf.crs # raster_data.crs
            layer == IF reproject THEN to_crs(gdf, raster_data.crs) ELSE gdf
            shapes == valid_geoms(layer.geoms)
            calls == IF reproject THEN <<"to_crs", "mask">> ELSE <<"mask">>
        IN  IF reproject /\ gdf.crs = "None" THEN
                \* to_crs of a layer without CRS raises, caught
                Ends("clip_raster", <<>>, "error", "Error while clipping raster",
                     <<"to_crs">>)
            ELSE IF shapes = <<>> THEN
                \* mask raises on an empty list of shapes, caught; self.gdf is
                \* already replaced
                /\ gdf' = layer
                /\ last_op' = Op("clip_raster", <<>>, "error", "Error while clipping raster",
                                 calls, None)
                /\ UNCHANGED <<raster_path, shapefile_path, raster_data, db_connection,
                               last_displayed_data, last_displayed_type, artifact_source,
                               index_vars>>
            ELSE
                /\ gdf' = layer
                /\ last_displayed_data' = mask_band1(raster_data, shapes)
                /\ last_displayed_type' = "raster"
                /\ artifact_source' = raster_data
                /\ last_op' = Op("clip_raster", <<>>, "ok", "Raster clipped successfully!",
                                 calls \o <<"show_image">>, None)
                /\ UNCHANGED <<raster_path, shapefile_path, raster_data, db_connection,
                               index_vars>>

\* The index named by the menu entry, on the two bands it reads.
index_of(index_type, first, nir) ==
    IF index_type = "NDVI" THEN calculate_ndvi(first, nir)
    ELSE IF index_type = "NDWI" THEN calculate_ndwi(first, nir)
    ELSE calculate_ndbi(first, nir)

\* calculate_index(index_type) after its four prompts: `first` is the red,
\* green or SWIR band number the index reads, `nir` the NIR band number.
index_step(index_type, first, nir) ==
    IF raster_data = None THEN
        Ends("calculate_index", <<index_type>>, "error", "Please upload a raster first.", <<>>)
    ELSE IF ~band_in_range(raster_data, first) THEN
        \* read(first) raises IndexError, caught
        Ends("calculate_index", <<index_type, first, nir>>, "error",
             "Error calculating index", <<"read">>)
    ELSE IF ~band_in_range(raster_data, nir) THEN
        Ends("calculate_index", <<index_type, first, nir>>, "error",
             "Error calculating index", <<"read", "read">>)
    ELSE
        /\ Displays(index_of(index_type, read(raster_data, first), read(raster_data, nir)),
                    "raster", raster_data)
        /\ last_op' = Op("calculate_index", <<index_type, first, nir>>, "ok", "",
                         <<"read", "read", "show_image">>, None)

\* The prompts ask for red, NIR, green and SWIR whatever the index; the ok
\* flags are dropped, so a cancelled prompt counts as band 0.  `band` is the
\* answer the index reads besides NIR (red for NDVI, green for NDWI, SWIR
\* for NDBI); the two other answers are read and dropped.
calculate_index ==
    \E index_type \in {"NDVI", "NDWI", "NDBI"} :
        \E band, nir_band \in BandInputs :
            /\ BandInputs \X BandInputs # {}
            /\ index_step(index_type, band, nir_band)

display_raster ==
    \E prompt \in BandPrompt :
        LET band_index == prompt[1]
            ok == prompt[2]
        IN  IF raster_data = None THEN
                Ends("display_raster", <<>>, "error", "No raster uploaded.", <<>>)
            ELSE IF ~ok \/ band_index <= 0 THEN
                Ends("display_raster", prompt, "error", "Invalid band number.", <<>>)
            ELSE IF ~band_in_range(raster_data, band_index) THEN
                \* read(band_index) raises IndexError, caught
                Ends("display_raster", prompt, "error", "Error displaying raster", <<"read">>)
            ELSE
                /\ Displays(read(raster_data, band_index), "raster", raster_data)
                /\ last_op' = Op("display_raster", prompt, "ok", "", <<"read", "imshow">>, None)

\* The layer visualize_shapefile puts on the map: in EPSG:4326, valid
\* features only.
map_layer(shapefile) ==
    LET located == IF shapefile.crs = "None" \/ ~is_geographic(shapefile.crs)
                   THEN to_crs(shapefile, "EPSG:4326") ELSE shapefile
    IN  [located EXCEPT !.geoms = valid_geoms(located.geoms)]

\* save_ok: whether fmap.save can write shapefile_map.html.
visualize_shapefile ==
    \E save_ok \in BOOLEAN :
        IF shapefile_path = NoneStr THEN
            Ends("visualize_shapefile", <<>>, "error", "No shapefile uploaded.", <<>>)
        ELSE
            LET shapefile == map_layer(ShapeFile(shapefile_path))
            IN  IF empty(shapefile) THEN
                    Ends("visualize_shapefile", <<>>, "error",
                         "Shapefile contains no valid geometries.", <<"gpd.read_file">>)
                ELSE
                    \* the artifact is stored before the map is built and saved
                    /\ Displays(shapefile, "shapefile", None)
                    /\ last_op' =
                         IF save_ok
                         THEN Op("visualize_shapefile", <<>>, "ok", "",
                                 <<"gpd.read_file", "fmap.save", "webbrowser.open">>, None)
                         ELSE Op("visualize_shapefile", <<>>, "error",
                                 "Error visualizing shapefile",
                                 <<"gpd.read_file", "fmap.save">>, None)

visualize_shapefile_on_gui ==
    IF shapefile_path = NoneStr THEN
        Ends("visualize_shapefile_on_gui", <<>>, "error", "No shapefile uploaded.", <<>>)
    ELSE
        /\ Displays(ShapeFile(shapefile_path), "shapefile", None)
        /\ last_op' = Op("visualize_shapefile_on_gui", <<>>, "ok", "",
                         <<"gpd.read_file", "plot">>, None)

connect_to_postgis ==
    \E credentials \in Credentials :
        IF credentials = "good" THEN
            /\ db_connection' = Connection
            /\ last_op' = Op("connect_to_postgis", <<credentials>>, "ok",
                             "Connected to PostGIS database successfully!",
                             <<"psycopg2.connect">>, None)
            /\ UNCHANGED <<raster_path, shapefile_path, raster_data, gdf,
                           last_displayed_data, last_displayed_type, artifact_source,
                           index_vars>>
        ELSE
            Ends("connect_to_postgis", <<credentials>>, "error",
                 "Error connecting to database", <<"psycopg2.connect">>)

\* save_ok: whether fmap.save can write ~/postgis_visualization.html.
import_and_visualize_from_postgis ==
    \E prompt \in TablePrompt, save_ok \in BOOLEAN :
        LET table_name == prompt[1]
            ok == prompt[2]
        IN  IF db_connection = None THEN
                Ends("import_and_visualize_from_postgis", <<>>, "error",
                     "Please connect to the PostGIS database first.", <<>>)
            ELSE IF ~ok \/ table_name = "" THEN
                Ends("import_and_visualize_from_postgis", prompt, "error",
                     "Invalid table name.", <<>>)
            ELSE IF table_name \notin ValidTables THEN
                \* the query fails
                Ends("import_and_visualize_from_postgis", prompt, "error",
                     "Error visualizing shapefile from PostGIS", <<"gpd.read_postgis">>)
            ELSE
                LET rows == Table(table_name)
                    layer == IF rows.crs = "None" THEN to_crs(rows, "EPSG:4326") ELSE rows
                IN  \* self.gdf is assigned as soon as the query returns
                    /\ gdf' = layer
                    /\ IF empty(layer) THEN
                           \* centroid.iloc[0] raises IndexError, caught
                           /\ last_op' = Op("import_and_visualize_from_postgis", prompt,
                                            "error", "Error visualizing shapefile from PostGIS",
                                            <<"gpd.read_postgis", "centroid">>, None)
                           /\ UNCHANGED <<last_displayed_data, last_displayed_type,
                                          artifact_source>>
                       ELSE IF ~save_ok THEN
                           /\ last_op' = Op("import_and_visualize_from_postgis", prompt,
                                            "error", "Error visualizing shapefile from PostGIS",
                                            <<"gpd.read_postgis", "centroid", "fmap.save">>, None)
                           /\ UNCHANGED <<last_displayed_data, last_displayed_type,
                                          artifact_source>>
                       ELSE
                           /\ last_displayed_data' = layer
                           /\ last_displayed_type' = "shapefile"
                           /\ artifact_source' = None
                           /\ last_op' = Op("import_and_visualize_from_postgis", prompt,
                                            "ok", "",
                                            <<"gpd.read_postgis", "centroid", "fmap.save",
                                              "webbrowser.open">>, None)
                    /\ UNCHANGED <<raster_path, shapefile_path, raster_data, db_connection,
                                   index_vars>>

\* The export guard testing the raster handle instead of the artifact.
nothing_to_export_by_raster == raster_data = None

\* `self.last_displayed_data is None`
nothing_to_export == last_displayed_data = None

\* write_ok: whether the chosen path can be written.
export_displayed_data ==
    \E file_path \in SaveDialog, write_ok \in BOOLEAN :
        IF nothing_to_export THEN
            Ends("export_displayed_data", <<>>, "error", "No data available to export.", <<>>)
        ELSE IF file_path = "" THEN
            Ends("export_displayed_data", <<file_path>>, "canceled",
                 "Save operation canceled.", <<>>)
        ELSE IF last_displayed_type = "shapefile" THEN
            IF write_ok THEN
                /\ last_op' = Op("export_displayed_data", <<file_path>>, "ok",
                                 "Data exported successfully", <<"to_file">>,
                                 File("ESRI Shapefile", file_path, last_displayed_data,
                                      last_displayed_data.crs, "None"))
                /\ UNCHANGED <<session, artifact_source, index_vars>>
            ELSE
                Ends("export_displayed_data", <<file_path>>, "error",
                     "Error exporting data", <<"to_file">>)
        ELSE IF last_displayed_type = "raster" THEN
            IF raster_data = None THEN
                \* self.raster_data.crs on None: AttributeError, caught
                Ends("export_displayed_data", <<file_path>>, "error",
                     "Error exporting data", <<>>)
            ELSE IF write_ok THEN
                /\ last_op' = Op("export_displayed_data", <<file_path>>, "ok",
                                 "Data exported successfully", <<"rasterio.open", "write">>,
                                 File("GTiff", file_path, last_displayed_data,
                                      raster_data.crs, raster_data.transform))
                /\ UNCHANGED <<session, artifact_source, index_vars>>
            ELSE
                Ends("export_displayed_data", <<file_path>>, "error",
                     "Error exporting data", <<"rasterio.open">>)
        ELSE
            \* neither tag: nothing is written, success is reported
            Ends("export_displayed_data", <<file_path>>, "ok",
                 "Data exported successfully", <<>>)

Next ==
    \/ upload_raster
    \/ upload_shapefile
    \/ buffer_tool
    \/ clip_raster
    \/ calculate_index
    \/ display_raster
    \/ visualize_shapefile
    \/ visualize_shapefile_on_gui
    \/ connect_to_postgis
    \/ import_and_visualize_from_postgis
    \/ export_displayed_data

Spec == Init /\ [][Next]_vars

\* ------------------------------------------- the index-math specification
\* The index helpers applied to every pair of equal-shaped integer arrays
\* of NPix pixels with values in -MaxVal..MaxVal.
Arrays == {Array("int", <<1, NPix>>, px) : px \in [1..NPix -> -MaxVal..MaxVal]}

IndexInit ==
    /\ SessionInit
    /\ arg1 \in Arrays
    /\ arg2 \in Arrays
    /\ fn = NoneStr
    /\ result = None

call_ndvi ==
    /\ fn' = "calculate_ndvi"
    /\ result' = calculate_ndvi(arg1, arg2)
    /\ UNCHANGED <<session, artifact_source, last_op, arg1, arg2>>

call_ndwi ==
    /\ fn' = "calculate_ndwi"
    /\ result' = calculate_ndwi(arg1, arg2)
    /\ UNCHANGED <<session, artifact_source, last_op, arg1, arg2>>

call_ndbi ==
    /\ fn' = "calculate_ndbi"
    /\ result' = calculate_ndbi(arg1, arg2)
    /\ UNCHANGED <<session, artifact_source, last_op, arg1, arg2>>

IndexNext == call_ndvi \/ call_ndwi \/ call_ndbi

SpecIndex == IndexInit /\ [][IndexNext]_vars

\* ----------------------------------------------------------------- claims
\* The fields the handlers own, apart from the two paths.
state == <<raster_data, gdf, db_connection, last_displayed_data, last_displayed_type>>

Called(call, op) == \E i \in DOMAIN op.calls : op.calls[i] = call

\* C1: export with no artifact ever produced (last_displayed_data is None)
\* reports "No data available to export.", writes no file and leaves the
\* raster handle, the vector layer, the connection and the artifact as
\* they were, whatever uploads, connects and failed operations came before.
C1_ExportWithoutArtifact ==
    [][(last_op'.op = "export_displayed_data" /\ last_displayed_data = None)
        => /\ last_op'.outcome = "error"
           /\ last_op'.msg = "No data available to export."
           /\ last_op'.written = None
           /\ UNCHANGED state]_vars

C1_Witness ==
    /\ last_op.op = "export_displayed_data"
    /\ last_op.msg = "No data available to export."
    /\ raster_data # None
    /\ gdf # None
    /\ db_connection # None
    /\ last_displayed_data = None

\* C2: buffer_tool on a loaded non-empty layer: a cancelled prompt or a
\* distance <= 0 ends in "Invalid buffer distance." with gdf and the
\* artifact untouched; only a distance > 0 gets past the check, and the
\* layer it stores as the artifact, tagged shapefile, is gdf buffered by
\* that distance, gdf itself staying as it was.
C2_BufferDistance ==
    [][(last_op'.op = "buffer_tool" /\ gdf # None /\ ~empty(gdf))
        => LET distance == last_op'.input[1]
               ok == last_op'.input[2]
           IN  IF ~ok \/ distance <= 0
               THEN /\ last_op'.outcome = "error"
                    /\ last_op'.msg = "Invalid buffer distance."
                    /\ ~Called("buffer", last_op')
                    /\ UNCHANGED <<gdf, last_displayed_data, last_displayed_type>>
               ELSE /\ gdf' = gdf
                    /\ last_op'.outcome = "ok"
                       => /\ last_displayed_type' = "shapefile"
                          /\ last_displayed_data'.kind = "layer"
                          /\ last_displayed_data'.crs = gdf.crs
                          /\ Len(last_displayed_data'.geoms) = Len(gdf.geoms)
                          /\ \A i \in DOMAIN gdf.geoms :
                                /\ last_displayed_data'.geoms[i].id = gdf.geoms[i].id
                                /\ last_displayed_data'.geoms[i].buf = distance]_vars

C2_Witness ==
    /\ last_op.op = "buffer_tool"
    /\ last_op.msg = "Invalid buffer distance."
    /\ last_op.input = <<0, TRUE>>
    /\ gdf # None
    /\ last_displayed_type = "raster"

\* C3: for equal-shaped arrays A, B the result of calculate_ndvi(A, B) is
\* (B-A)/(B+A), of calculate_ndwi and calculate_ndbi (A-B)/(A+B), at every
\* pixel where A+B # 0, and exactly 0 where A+B = 0; it is a finite float
\* everywhere (never nan or an infinity).
C3_IndexLaw ==
    fn # NoneStr =>
        /\ result.kind = "array"
        /\ result.dtype = "float64"
        /\ result.shape = arg1.shape
        /\ DOMAIN result.px = DOMAIN arg1.px
        /\ \A i \in DOMAIN arg1.px :
              LET a == arg1.px[i]
                  b == arg2.px[i]
                  r == result.px[i]
                  num == IF fn = "calculate_ndvi" THEN b - a ELSE a - b
              IN  /\ r[2] > 0
                  /\ IF a + b = 0 THEN r[1] = 0 ELSE r[1] * (a + b) = r[2] * num

C3_Witness ==
    /\ fn = "calculate_ndvi"
    /\ \E i \in DOMAIN arg1.px : arg1.px[i] + arg2.px[i] = 0 /\ arg1.px[i] # 0
    /\ \E i \in DOMAIN arg1.px : arg1.px[i] + arg2.px[i] # 0 /\ result.px[i][1] > 0

\* C4: a handler invoked without its required resource (index or band
\* display without a raster, buffer without a layer, clip without a raster
\* or without a layer, visualize without a shapefile, import without a
\* connection) reports an error, lets no exception escape and leaves the
\* session as it was; and with both a raster and a layer loaded the
\* precondition check of clip_raster does not itself fail.
MissingResource(op) ==
    \/ op \in {"calculate_index", "display_raster"} /\ raster_data = None
    \/ op = "buffer_tool" /\ gdf = None
    \/ op = "clip_raster" /\ (raster_data = None \/ gdf = None)
    \/ op \in {"visualize_shapefile", "visualize_shapefile_on_gui"}
          /\ shapefile_path = NoneStr
    \/ op = "import_and_visualize_from_postgis" /\ db_connection = None

C4_MissingResourceReported ==
    [][/\ MissingResource(last_op'.op)
          => last_op'.outcome = "error" /\ UNCHANGED <<session, artifact_source>>
       /\ (last_op'.op = "clip_raster" /\ raster_data # None /\ gdf # None)
          => last_op'.outcome # "unhandled"]_vars

\* C5: a handler that ends by reporting an error after a library call
\* failed leaves the raster handle, the layer, the connection and the
\* artifact exactly as they were when it started.
C5_ErrorLeavesState ==
    [][(last_op'.outcome = "error" /\ last_op'.calls # <<>>) => UNCHANGED state]_vars

\* C6: an exported raster artifact is written with the CRS and the
\* geotransform of the raster handle it was derived from, also when another
\* raster was uploaded between producing and exporting it.
C6_ExportUsesSourceRaster ==
    (/\ last_op.op = "export_displayed_data"
     /\ last_op.written # None
     /\ last_displayed_type = "raster")
    => /\ last_op.written.crs = artifact_source.crs
       /\ last_op.written.transform = artifact_source.transform

\* C7: clip_raster with a raster loaded and a layer without any valid
\* geometry ends in a reported error and keeps the previous artifact.
C7_ClipNoValidGeometry ==
    [][(/\ last_op'.op = "clip_raster"
        /\ raster_data # None
        /\ gdf # None
        /\ valid_geoms(gdf.geoms) = <<>>)
        => /\ last_op'.outcome = "error"
           /\ UNCHANGED <<last_displayed_data, last_displayed_type>>]_vars

\* C8: an invalid input (a buffer distance <= 0, a band number <= 0 or
\* above the band count in display_raster and calculate_index, an empty
\* table name) is reported before the handler calls the raster read, the
\* buffer or the database query.
OutOfRange(band) == band <= 0 \/ band > raster_data.count

C8_ValidationBeforeLibrary ==
    [][/\ (last_op'.op = "buffer_tool" /\ gdf # None /\ ~empty(gdf)
              /\ last_op'.input[1] <= 0)
          => last_op'.outcome = "error" /\ ~Called("buffer", last_op')
       /\ (last_op'.op = "display_raster" /\ raster_data # None
              /\ OutOfRange(last_op'.input[1]))
          => last_op'.outcome = "error" /\ ~Called("read", last_op')
       /\ (last_op'.op = "calculate_index" /\ raster_data # None
              /\ (OutOfRange(last_op'.input[2]) \/ OutOfRange(last_op'.input[3])))
          => last_op'.outcome = "error" /\ ~Called("read", last_op')
       /\ (last_op'.op = "import_and_visualize_from_postgis" /\ db_connection # None
              /\ last_op'.input[1] = "")
          => last_op'.outcome = "error" /\ ~Called("gpd.read_postgis", last_op')]_vars

\* C9: an artifact-producing handler with valid preconditions and inputs
\* completes by overwriting the artifact with its own result and tag
\* (raster for index, clip and band display; shapefile for buffer,
\* visualize and import), and the artifact is always the output of the
\* most recent handler that succeeded.
RasterProducers == {"calculate_index", "clip_raster", "display_raster"}
VectorProducers == {"buffer_tool", "visualize_shapefile", "visualize_shapefile_on_gui",
                    "import_and_visualize_from_postgis"}

C9_ArtifactOfLastSuccess ==
    [][/\ (last_op'.op \in RasterProducers /\ last_op'.outcome = "ok")
          => last_displayed_type' = "raster" /\ last_displayed_data'.kind = "array"
       /\ (last_op'.op \in VectorProducers /\ last_op'.outcome = "ok")
          => last_displayed_type' = "shapefile" /\ last_displayed_data'.kind = "layer"
       /\ (/\ last_op'.op = "clip_raster"
           /\ raster_data # None
           /\ gdf # None
           /\ gdf.crs # "None"
           /\ valid_geoms(gdf.geoms) # <<>>)
          => last_op'.outcome = "ok" /\ last_displayed_type' = "raster"
       /\ (last_displayed_data' # last_displayed_data
              \/ last_displayed_type' # last_displayed_type)
          => last_op'.outcome = "ok"]_vars

\* C10: gdf is replaced only by a successful shapefile upload or a
\* successful PostGIS import; every other handler, and every handler that
\* ends in an error, leaves it as it was.
C10_GdfReplacedOnlyByLoad ==
    [][gdf' # gdf
        => /\ last_op'.op \in {"upload_shapefile", "import_and_visualize_from_postgis"}
           /\ last_op'.outcome = "ok"]_vars

\* C11: in every reachable session last_displayed_data is None exactly
\* when last_displayed_type is None, the tag matches the kind of the data,
\* and a raster-tagged artifact comes with a loaded raster handle, so the
\* export of a raster artifact never reads crs or transform of None.
C11_ArtifactTagInvariant ==
    /\ last_displayed_data = None <=> last_displayed_type = NoneStr
    /\ last_displayed_type = "raster"
       => last_displayed_data.kind = "array" /\ raster_data # None
    /\ last_displayed_type = "shapefile" => last_displayed_data.kind = "layer"
    /\ last_displayed_type \in {NoneStr, "raster", "shapefile"}

C11_Witness ==
    /\ last_displayed_type = "raster"
    /\ last_op.op = "export_displayed_data"
    /\ last_op.outcome = "ok"
    /\ last_op.written # None
    /\ raster_data # artifact_source

====
